---- MODULE Spec2Model ----
(***************************************************************************)
(* Mention resolution of discordgo's Message (src/message.go):              *)
(*   Message.ContentWithMentionsReplaced      (the basic resolver)          *)
(*   Message.ContentWithMoreMentionsReplaced  (the cache-augmented one)     *)
(*                                                                         *)
(* A Go string is modelled as a sequence of one-character strings, so that *)
(* substring search, slicing and concatenation are computed as the code    *)
(* computes them.  While a resolver rewrites the content, every character  *)
(* carries a provenance mark: FALSE for a character of Message.Content,    *)
(* TRUE for a character written by a substitution.  The mark is a history  *)
(* annotation; no comparison made by the code reads it.                    *)
(***************************************************************************)
EXTENDS Integers, Sequences, FiniteSets, TLC

VARIABLES
    m,        \* the Message the resolvers are called on (never mutated)
    s,        \* the Session: StateEnabled and the contents of State
    pc,       \* position of the ContentWithMoreMentionsReplaced call
    content,  \* its named result `content`
    err,      \* its named result `err`
    guild,    \* channel.GuildID of the channel resolved at line 418
    idx,      \* index of the range loop in progress (users, then roles)
    pos,      \* channel pass: first character not yet scanned by the regexp
    buf,      \* channel pass: output built so far by ReplaceAllStringFunc
    log,      \* every State lookup issued by the call, in order
    basic,    \* result of a ContentWithMentionsReplaced call on m
    again     \* result of ContentWithMentionsReplaced on that result

vars == <<m, s, pc, content, err, guild, idx, pos, buf, log, basic, again>>

----------------------------------------------------------------------------
(* Strings *)

Str1(a) == <<a>>

\* The text of a marked string.
Text(cells) == [k \in 1..Len(cells) |-> cells[k][1]]

\* A string none of whose characters was written by a substitution.
Original(str) == [k \in 1..Len(str) |-> <<str[k], FALSE>>]

\* A string written by a substitution.
Inserted(str) == [k \in 1..Len(str) |-> <<str[k], TRUE>>]

\* str[i:] starts with p (i is 1-based).
HasPrefixAt(str, i, p) ==
    /\ i + Len(p) - 1 <= Len(str)
    /\ \A k \in 1..Len(p) : str[i + k - 1] = p[k]

\* Some character of cells[i .. i+n-1] was written by a substitution.
CoversInserted(cells, i, n) == \E k \in i..(i + n - 1) : cells[k][2]

----------------------------------------------------------------------------
(* The library calls made by the resolvers *)

\* strings.NewReplacer(old1, new1, old2, new2).Replace(cells), scanning from
\* character i.  Both old strings are longer than one byte, so Go builds its
\* generic replacer: one left-to-right scan of the input, at each position
\* the old strings are compared in argument order, a match writes its new
\* string to the output and the scan resumes behind the match; the output
\* is never scanned.  Neither old string is empty here ("<@" .. ">").
\* rescanned: some match covered a character a substitution had written.
RECURSIVE genericReplace(_, _, _, _, _, _)
genericReplace(cells, i, old1, new1, old2, new2) ==
    IF i > Len(cells) THEN [out |-> <<>>, rescanned |-> FALSE]
    ELSE IF HasPrefixAt(Text(cells), i, old1) THEN
        LET rest == genericReplace(cells, i + Len(old1), old1, new1, old2, new2)
        IN  [out |-> Inserted(new1) \o rest.out,
             rescanned |-> rest.rescanned \/ CoversInserted(cells, i, Len(old1))]
    ELSE IF HasPrefixAt(Text(cells), i, old2) THEN
        LET rest == genericReplace(cells, i + Len(old2), old1, new1, old2, new2)
        IN  [out |-> Inserted(new2) \o rest.out,
             rescanned |-> rest.rescanned \/ CoversInserted(cells, i, Len(old2))]
    ELSE
        LET rest == genericReplace(cells, i + 1, old1, new1, old2, new2)
        IN  [out |-> <<cells[i]>> \o rest.out, rescanned |-> rest.rescanned]

ReplacerReplace(cells, old1, new1, old2, new2) ==
    genericReplace(cells, 1, old1, new1, old2, new2)

\* strings.Replace(cells, old, new, n) from character i: the first n
\* non-overlapping occurrences of old, left to right; all of them when n < 0.
\* old is never empty here ("<@&" .. ">").
RECURSIVE stringsReplaceFrom(_, _, _, _, _)
stringsReplaceFrom(cells, i, old, new, n) ==
    IF i > Len(cells) THEN <<>>
    ELSE IF n # 0 /\ HasPrefixAt(Text(cells), i, old) THEN
        Inserted(new)
            \o stringsReplaceFrom(cells, i + Len(old), old, new,
                                  IF n < 0 THEN n ELSE n - 1)
    ELSE <<cells[i]>> \o stringsReplaceFrom(cells, i + 1, old, new, n)

stringsReplace(cells, old, new, n) == stringsReplaceFrom(cells, 1, old, new, n)

\* patternChannels = "<#[^>]*>": a match starts at i when str[i:] starts with
\* "<#" and a ">" follows; it ends at the first such ">" ([^>]* cannot pass
\* one).  MatchEnd is 0 when no match starts at i.
MatchEnd(str, i) ==
    IF HasPrefixAt(str, i, <<"<", "#">>) /\ \E j \in (i + 2)..Len(str) : str[j] = ">"
    THEN CHOOSE j \in (i + 2)..Len(str) :
            /\ str[j] = ">"
            /\ \A k \in (i + 2)..(j - 1) : str[k] # ">"
    ELSE 0

\* The leftmost match of patternChannels at or after from; 0 when none.
NextMatch(str, from) ==
    IF \E i \in from..Len(str) : MatchEnd(str, i) # 0
    THEN CHOOSE i \in from..Len(str) :
            /\ MatchEnd(str, i) # 0
            /\ \A k \in from..(i - 1) : MatchEnd(str, k) = 0
    ELSE 0

----------------------------------------------------------------------------
(* Mention tokens *)

UserToken(id)    == <<"<", "@">> \o id \o <<">">>          \* "<@"+user.ID+">"
NickToken(id)    == <<"<", "@", "!">> \o id \o <<">">>     \* "<@!"+user.ID+">"
RoleToken(id)    == <<"<", "@", "&">> \o id \o <<">">>     \* "<@&"+role.ID+">"
ChannelToken(id) == <<"<", "#">> \o id \o <<">">>          \* matched by patternChannels

----------------------------------------------------------------------------
(* State: the three lookups ContentWithMoreMentionsReplaced consumes.  The *)
(* cache is a parameter of the call; a lookup either finds the entity      *)
(* stored under the key or fails.                                          *)

ErrStateNotFound == "ErrStateNotFound"
NoError == "nil"

ChannelTypeGuildText  == "GuildText"
ChannelTypeGuildVoice == "GuildVoice"

NoChannel == [ID |-> <<>>, Name |-> <<>>, GuildID |-> <<>>, Type |-> ChannelTypeGuildText]
NoMember  == [Nick |-> <<>>]
NoRole    == [ID |-> <<>>, Name |-> <<>>, Mentionable |-> FALSE]

\* s.State.Channel(channelID)
StateChannel(channelID) ==
    IF channelID \in DOMAIN s.State.channels
    THEN [err |-> NoError, channel |-> s.State.channels[channelID]]
    ELSE [err |-> ErrStateNotFound, channel |-> NoChannel]

\* s.State.Member(guildID, userID)
StateMember(guildID, userID) ==
    IF <<guildID, userID>> \in DOMAIN s.State.members
    THEN [err |-> NoError, member |-> s.State.members[<<guildID, userID>>]]
    ELSE [err |-> ErrStateNotFound, member |-> NoMember]

\* s.State.Role(guildID, roleID)
StateRole(guildID, roleID) ==
    IF <<guildID, roleID>> \in DOMAIN s.State.roles
    THEN [err |-> NoError, role |-> s.State.roles[<<guildID, roleID>>]]
    ELSE [err |-> ErrStateNotFound, role |-> NoRole]

Lookup(op, key, e) == [op |-> op, key |-> key, err |-> e]

----------------------------------------------------------------------------
(* ContentWithMentionsReplaced *)

\* The user's ID written where the Username belongs.
BasicReplacementByID(user) == <<"@">> \o user.ID

\* "@"+user.Username, the new string of both pairs of the replacer.
BasicReplacement(user) == <<"@">> \o user.Username

\* The range loop over m.Mentions: one Replacer per user, each run over the
\* whole of what the users before it left.
RECURSIVE basicLoop(_, _, _)
basicLoop(cells, mentions, rescanned) ==
    IF mentions = <<>> THEN [out |-> cells, rescanned |-> rescanned]
    ELSE LET user == Head(mentions)
             r == ReplacerReplace(cells,
                                  UserToken(user.ID), BasicReplacement(user),
                                  NickToken(user.ID), BasicReplacement(user))
         IN  basicLoop(r.out, Tail(mentions), rescanned \/ r.rescanned)

ContentWithMentionsReplaced(msg) ==
    basicLoop(Original(msg.Content), msg.Mentions, FALSE)

----------------------------------------------------------------------------
(* ContentWithMoreMentionsReplaced, one action per step of the call *)

\* Where the call continues once the user loop stands at index j.
AfterUsers(j) ==
    IF j <= Len(m.Mentions) THEN "users"
    ELSE IF Len(m.MentionRoles) > 0 THEN "roles" ELSE "channels"

\* Where the call continues once the role loop stands at index j.
AfterRoles(j) == IF j <= Len(m.MentionRoles) THEN "roles" ELSE "channels"

\* The cache is disabled and the content is returned as it is.
ReturnStateDisabledRaw ==
    /\ pc = "start"
    /\ ~s.StateEnabled
    /\ content' = Original(m.Content)
    /\ pc' = "done"
    /\ UNCHANGED <<m, s, err, guild, idx, pos, buf, log, basic, again>>

\* Lines 411-416: the cache is disabled.
ReturnStateDisabled ==
    /\ pc = "start"
    /\ ~s.StateEnabled
    /\ content' = ContentWithMentionsReplaced(m).out
    /\ pc' = "done"
    /\ UNCHANGED <<m, s, err, guild, idx, pos, buf, log, basic, again>>

\* The := of line 418 taken to declare a new err: the named result stays nil.
ErrShadowed(e) == NoError

\* The value of the named result err after `channel, err := s.State.Channel(..)`
\* at line 418: the := declares channel and assigns the existing err.
ErrAfterChannelLookup(e) == e

\* Lines 411-422: the message's channel is not in the cache.
ReturnChannelNotFound ==
    /\ pc = "start"
    /\ s.StateEnabled
    /\ LET r == StateChannel(m.ChannelID)
       IN  /\ r.err # NoError
           /\ err' = ErrAfterChannelLookup(r.err)
           /\ log' = Append(log, Lookup("Channel", m.ChannelID, r.err))
    /\ content' = ContentWithMentionsReplaced(m).out
    /\ pc' = "done"
    /\ UNCHANGED <<m, s, guild, idx, pos, buf, basic, again>>

\* Lines 411-423: the message's channel is resolved; the passes begin.
ChannelResolved ==
    /\ pc = "start"
    /\ s.StateEnabled
    /\ LET r == StateChannel(m.ChannelID)
       IN  /\ r.err = NoError
           /\ err' = ErrAfterChannelLookup(r.err)
           /\ guild' = r.channel.GuildID
           /\ log' = Append(log, Lookup("Channel", m.ChannelID, r.err))
    /\ content' = Original(m.Content)
    /\ idx' = 1
    /\ pc' = AfterUsers(1)
    /\ UNCHANGED <<m, s, pos, buf, basic, again>>

\* The member's nick is ignored.
NickOfUsername(user, r) == user.Username

\* Lines 425-430: the name written for "<@!ID>".
NickOf(user, r) ==
    IF r.err = NoError /\ r.member.Nick # <<>> THEN r.member.Nick ELSE user.Username

\* The user loop returns the error of a failed Member lookup.
UserStepAbortOnMiss ==
    /\ pc = "users"
    /\ LET user == m.Mentions[idx]
           r == StateMember(guild, user.ID)
       IN  /\ log' = Append(log, Lookup("Member", user.ID, r.err))
           /\ content' = ReplacerReplace(content,
                            UserToken(user.ID), <<"@">> \o user.Username,
                            NickToken(user.ID), <<"@">> \o NickOf(user, r)).out
           /\ err' = r.err
           /\ pc' = IF r.err # NoError THEN "done" ELSE AfterUsers(idx + 1)
    /\ idx' = IF idx < Len(m.Mentions) THEN idx + 1 ELSE 1
    /\ UNCHANGED <<m, s, guild, pos, buf, basic, again>>

\* Lines 424-436: one iteration of the user loop.  The err of line 427 is a
\* new variable of the loop body; the named result is not assigned.
UserStep ==
    /\ pc = "users"
    /\ LET user == m.Mentions[idx]
           r == StateMember(guild, user.ID)
       IN  /\ log' = Append(log, Lookup("Member", user.ID, r.err))
           /\ content' = ReplacerReplace(content,
                            UserToken(user.ID), <<"@">> \o user.Username,
                            NickToken(user.ID), <<"@">> \o NickOf(user, r)).out
    /\ idx' = IF idx < Len(m.Mentions) THEN idx + 1 ELSE 1
    /\ pc' = AfterUsers(idx + 1)
    /\ UNCHANGED <<m, s, err, guild, pos, buf, basic, again>>

\* Only a failed lookup skips the role.
RoleSkippedOnErrorOnly(r) == r.err # NoError

\* Line 439: the role is skipped.
RoleSkipped(r) == r.err # NoError \/ ~r.role.Mentionable

\* The role is looked up only when its token occurs in the content.
RoleStepLookupIfMentioned ==
    /\ pc = "roles"
    /\ LET roleID == m.MentionRoles[idx]
           r == StateRole(guild, roleID)
           mentioned == \E i \in 1..Len(content) :
                            HasPrefixAt(Text(content), i, RoleToken(roleID))
       IN  /\ log' = IF mentioned THEN Append(log, Lookup("Role", roleID, r.err)) ELSE log
           /\ content' = IF ~mentioned \/ RoleSkipped(r) THEN content
                         ELSE stringsReplace(content, RoleToken(r.role.ID),
                                             <<"@">> \o r.role.Name, 0 - 1)
    /\ idx' = IF idx < Len(m.MentionRoles) THEN idx + 1 ELSE 1
    /\ pc' = AfterRoles(idx + 1)
    /\ UNCHANGED <<m, s, err, guild, pos, buf, basic, again>>

\* Lines 437-444: one iteration of the role loop.
RoleStep ==
    /\ pc = "roles"
    /\ LET roleID == m.MentionRoles[idx]
           r == StateRole(guild, roleID)
       IN  /\ log' = Append(log, Lookup("Role", roleID, r.err))
           /\ content' = IF RoleSkipped(r) THEN content
                         ELSE stringsReplace(content, RoleToken(r.role.ID),
                                             <<"@">> \o r.role.Name, 0 - 1)
    /\ idx' = IF idx < Len(m.MentionRoles) THEN idx + 1 ELSE 1
    /\ pc' = AfterRoles(idx + 1)
    /\ UNCHANGED <<m, s, err, guild, pos, buf, basic, again>>

\* A voice channel is substituted like any other.
ChannelSkippedOnErrorOnly(r) == r.err # NoError

\* Line 448: the channel mention is left as it is.
ChannelSkipped(r) == r.err # NoError \/ r.channel.Type = ChannelTypeGuildVoice

\* mention[1 : len(mention)-1]: the "#" is taken for part of the ID.
MentionIDWithHash(mention) == SubSeq(mention, 2, Len(mention) - 1)

\* Line 447: mention[2 : len(mention)-1].
MentionID(mention) == SubSeq(mention, 3, Len(mention) - 1)

\* Lines 446-453: ReplaceAllStringFunc calls the function on the next match.
ChannelStep ==
    /\ pc = "channels"
    /\ LET text == Text(content)
           st == NextMatch(text, pos)
       IN  /\ st # 0
           /\ LET en == MatchEnd(text, st)
                  mention == SubSeq(text, st, en)
                  r == StateChannel(MentionID(mention))
              IN  /\ log' = Append(log, Lookup("Channel", MentionID(mention), r.err))
                  /\ buf' = buf \o SubSeq(content, pos, st - 1)
                                \o (IF ChannelSkipped(r) THEN SubSeq(content, st, en)
                                    ELSE Inserted(<<"#">> \o r.channel.Name))
                  /\ pos' = en + 1
    /\ UNCHANGED <<m, s, pc, content, err, guild, idx, basic, again>>

\* Lines 446, 454: no match is left; the rest is copied and the call returns.
ChannelsDone ==
    /\ pc = "channels"
    /\ NextMatch(Text(content), pos) = 0
    /\ content' = buf \o SubSeq(content, pos, Len(content))
    /\ pc' = "done"
    /\ UNCHANGED <<m, s, err, guild, idx, pos, buf, log, basic, again>>

----------------------------------------------------------------------------
(* Calls of ContentWithMentionsReplaced *)

NotCalled == [ret |-> FALSE, out |-> <<>>, rescanned |-> FALSE]

\* m.ContentWithMentionsReplaced()
CallBasic ==
    /\ ~basic.ret
    /\ LET r == ContentWithMentionsReplaced(m)
       IN  basic' = [ret |-> TRUE, out |-> r.out, rescanned |-> r.rescanned]
    /\ UNCHANGED <<m, s, pc, content, err, guild, idx, pos, buf, log, again>>

\* ContentWithMentionsReplaced on a message that differs from m only in that
\* its Content is the string the first call returned.
CallBasicAgain ==
    /\ basic.ret
    /\ ~again.ret
    /\ LET r == ContentWithMentionsReplaced([m EXCEPT !.Content = Text(basic.out)])
       IN  again' = [ret |-> TRUE, out |-> r.out, rescanned |-> r.rescanned]
    /\ UNCHANGED <<m, s, pc, content, err, guild, idx, pos, buf, log, basic>>

----------------------------------------------------------------------------
(* Inputs *)

\* The concatenations of at most n strings of pieces.
RECURSIVE Texts(_, _)
Texts(pieces, n) ==
    IF n = 0 THEN {<<>>}
    ELSE LET shorter == Texts(pieces, n - 1)
         IN  shorter \cup {p \o t : p \in pieces, t \in shorter}

\* The sequences over S of length at most n.
UpTo(S, n) == UNION {[1..k -> S] : k \in 0..n}

User(id, name) == [ID |-> Str1(id), Username |-> name]

GuildG == Str1("g")

\* Bounds of the cache-augmented calls.
MaxTokens == 2          \* pieces of Content
\* Bounds of the basic calls.
MaxPieces == 3          \* pieces of Content
MaxMentions == 2        \* users in Mentions

\* Cache-augmented calls: users 1 and 2, roles 5 and 6, channels 7 and 8, the
\* message sent in channel 9 of guild g.
Pieces ==
    { Str1("x"), <<"<", "#">>,
      UserToken(Str1("1")), NickToken(Str1("1")), NickToken(Str1("2")),
      RoleToken(Str1("5")), RoleToken(Str1("6")),
      ChannelToken(Str1("7")), ChannelToken(Str1("8")) }

MentionLists ==
    { <<>>, <<User("1", Str1("a"))>>,
      <<User("1", Str1("a")), User("2", Str1("b"))>> }

RoleLists == { <<>>, <<Str1("5")>>, <<Str1("5"), Str1("6")>> }

Messages ==
    [ ChannelID : {Str1("9")},
      Content : Texts(Pieces, MaxTokens),
      Mentions : MentionLists,
      MentionRoles : RoleLists ]

TextChannel(id, name) ==
    [ID |-> Str1(id), Name |-> Str1(name), GuildID |-> GuildG,
     Type |-> ChannelTypeGuildText]

VoiceChannel(id, name) ==
    [ID |-> Str1(id), Name |-> Str1(name), GuildID |-> GuildG,
     Type |-> ChannelTypeGuildVoice]

\* Channel 8 is a text channel, the message's channel 9 is present; channel
\* 7 is absent, voice or text.
ChannelCaches ==
    { c7 @@ (Str1("8") :> TextChannel("8", "d")) @@ (Str1("9") :> TextChannel("9", "e")) :
        c7 \in { <<>>, Str1("7") :> VoiceChannel("7", "v"),
                 Str1("7") :> TextChannel("7", "c") } }

\* Member 2 has nick m; member 1 is absent, has no nick, or has nick n.
MemberCaches ==
    { m1 @@ (<<GuildG, Str1("2")>> :> [Nick |-> Str1("m")]) :
        m1 \in { <<>>, <<GuildG, Str1("1")>> :> [Nick |-> <<>>],
                 <<GuildG, Str1("1")>> :> [Nick |-> Str1("n")] } }

Role(id, name, mentionable) ==
    [ID |-> Str1(id), Name |-> Str1(name), Mentionable |-> mentionable]

\* Role 6 is mentionable; role 5 is absent, not mentionable, or mentionable.
RoleCaches ==
    { r5 @@ (<<GuildG, Str1("6")>> :> Role("6", "s", TRUE)) :
        r5 \in { <<>>, <<GuildG, Str1("5")>> :> Role("5", "r", FALSE),
                 <<GuildG, Str1("5")>> :> Role("5", "r", TRUE) } }

\* The caches in which the message's channel is found.
ResolvingStates ==
    [channels : ChannelCaches, members : MemberCaches, roles : RoleCaches]

\* Every entity is cached: text channels, nicks, mentionable roles.
FullState ==
    [ channels |-> (Str1("7") :> TextChannel("7", "c")) @@ (Str1("8") :> TextChannel("8", "d"))
                    @@ (Str1("9") :> TextChannel("9", "e")),
      members |-> (<<GuildG, Str1("1")>> :> [Nick |-> Str1("n")])
                    @@ (<<GuildG, Str1("2")>> :> [Nick |-> Str1("m")]),
      roles |-> (<<GuildG, Str1("5")>> :> Role("5", "r", TRUE))
                    @@ (<<GuildG, Str1("6")>> :> Role("6", "s", TRUE)) ]

\* FullState without the message's channel 9.
OrphanState ==
    [FullState EXCEPT !.channels =
        (Str1("7") :> TextChannel("7", "c")) @@ (Str1("8") :> TextChannel("8", "d"))]

NoState == [channels |-> <<>>, members |-> <<>>, roles |-> <<>>]

Sessions ==
    {[StateEnabled |-> TRUE, State |-> st] : st \in ResolvingStates \cup {OrphanState, NoState}}
        \cup {[StateEnabled |-> FALSE, State |-> st] : st \in {FullState, NoState}}

\* Basic calls: user 1 as a or as 2, user 2 as b or as the empty name.
BasicPieces ==
    { Str1("x"), Str1("<"), Str1(">"),
      UserToken(Str1("1")), NickToken(Str1("1")), UserToken(Str1("2")) }

BasicUsers ==
    { User("1", Str1("a")), User("1", Str1("2")), User("2", Str1("b")), User("2", <<>>) }

BasicMessages ==
    [ ChannelID : {Str1("9")},
      Content : Texts(BasicPieces, MaxPieces),
      Mentions : UpTo(BasicUsers, MaxMentions),
      MentionRoles : {<<>>} ]

----------------------------------------------------------------------------
(* Specifications *)

Start ==
    /\ pc = "start"
    /\ content = <<>>
    /\ err = NoError
    /\ guild = <<>>
    /\ idx = 1
    /\ pos = 1
    /\ buf = <<>>
    /\ log = <<>>
    /\ basic = NotCalled
    /\ again = NotCalled

\* A call of each resolver on one message, with one session: the caller
\* calls ContentWithMoreMentionsReplaced and, once it has returned,
\* ContentWithMentionsReplaced (neither call changes what the other reads).
Init ==
    /\ m \in Messages
    /\ s \in Sessions
    /\ Start

Next ==
    \/ ReturnStateDisabled
    \/ ReturnChannelNotFound
    \/ ChannelResolved
    \/ UserStep
    \/ RoleStep
    \/ ChannelStep
    \/ ChannelsDone
    \/ (pc = "done" /\ CallBasic)

Spec == Init /\ [][Next]_vars

\* The basic resolver applied to a message, then to its own result.
InitBasic ==
    /\ m \in BasicMessages
    /\ s = [StateEnabled |-> FALSE, State |-> NoState]
    /\ Start

NextBasic ==
    \/ CallBasic
    \/ CallBasicAgain

SpecBasic == InitBasic /\ [][NextBasic]_vars

----------------------------------------------------------------------------
(* Vocabulary of the properties *)

Done == pc = "done"

\* The message's channel is in the cache.
ChannelKnown == m.ChannelID \in DOMAIN s.State.channels

\* The cache is enabled and the first lookup succeeds.
Enhancing == s.StateEnabled /\ ChannelKnown

\* p occurs in str.
Contains(str, p) == \E i \in 1..Len(str) : HasPrefixAt(str, i, p)

\* str with every occurrence of old replaced by new.
RECURSIVE ReplaceAll(_, _, _)
ReplaceAll(str, old, new) ==
    IF Len(str) < Len(old) THEN str
    ELSE IF SubSeq(str, 1, Len(old)) = old
         THEN new \o ReplaceAll(SubSeq(str, Len(old) + 1, Len(str)), old, new)
         ELSE <<Head(str)>> \o ReplaceAll(Tail(str), old, new)

\* The number of occurrences of p in str.
Count(str, p) == Cardinality({i \in 1..Len(str) : HasPrefixAt(str, i, p)})

\* The position of the first c in str at or after i; 0 when there is none.
RECURSIVE IndexFrom(_, _, _)
IndexFrom(str, c, i) ==
    IF i > Len(str) THEN 0
    ELSE IF str[i] = c THEN i ELSE IndexFrom(str, c, i + 1)

\* The IDs of the "<#...>" tokens of str, left to right.
RECURSIVE ChannelMentions(_)
ChannelMentions(str) ==
    IF Len(str) < 3 THEN <<>>
    ELSE IF str[1] = "<" /\ str[2] = "#" /\ IndexFrom(str, ">", 3) # 0
         THEN LET close == IndexFrom(str, ">", 3)
              IN  <<SubSeq(str, 3, close - 1)>>
                      \o ChannelMentions(SubSeq(str, close + 1, Len(str)))
         ELSE ChannelMentions(Tail(str))

\* id names a cached channel that is not a voice channel.
IsTextChannel(id) ==
    /\ id \in DOMAIN s.State.channels
    /\ s.State.channels[id].Type # ChannelTypeGuildVoice

\* str with each "<#id>" token of a cached non-voice channel replaced by
\* "#" and the channel's name, every other token left as it is.
RECURSIVE SubstituteChannels(_)
SubstituteChannels(str) ==
    IF Len(str) < 3 THEN str
    ELSE IF str[1] = "<" /\ str[2] = "#" /\ IndexFrom(str, ">", 3) # 0
         THEN LET close == IndexFrom(str, ">", 3)
                  id == SubSeq(str, 3, close - 1)
              IN  (IF IsTextChannel(id) THEN <<"#">> \o s.State.channels[id].Name
                   ELSE SubSeq(str, 1, close))
                      \o SubstituteChannels(SubSeq(str, close + 1, Len(str)))
         ELSE <<Head(str)>> \o SubstituteChannels(Tail(str))

Digits == {"0", "1", "2", "3", "4", "5", "6", "7", "8", "9"}

\* Every Username of Mentions is non-empty, holds no "<" and begins with
\* neither a decimal digit nor "!".
PlainNames ==
    \A k \in 1..Len(m.Mentions) :
        LET name == m.Mentions[k].Username
        IN  /\ name # <<>>
            /\ name[1] \notin Digits \cup {"!"}
            /\ \A j \in 1..Len(name) : name[j] # "<"

\* The step taken issues a lookup while the call stands at position p.
LookupStep(p) == pc = p /\ Len(log') = Len(log) + 1

\* The lookups issued, as <<operation, key>>.
Issued == [k \in 1..Len(log) |-> <<log[k].op, log[k].key>>]

----------------------------------------------------------------------------
(* Properties *)

Str(a, b) == a \o b

\* C1 as stated: with the cache enabled and the message's channel not found,
\* the call returns what ContentWithMentionsReplaced returns, and a nil error.
C1_FallbackReportsNoError ==
    (Done /\ s.StateEnabled /\ ~ChannelKnown /\ basic.ret)
        => (Text(content) = Text(basic.out) /\ err = NoError)

\* C1 amended: with the cache enabled and the message's channel not found,
\* the call returns what ContentWithMentionsReplaced returns, together with
\* the error of the failed Channel lookup; that lookup is the only one made.
C1_FallbackReturnsLookupError ==
    (Done /\ s.StateEnabled /\ ~ChannelKnown /\ basic.ret)
        => /\ Text(content) = Text(basic.out)
           /\ err = ErrStateNotFound
           /\ Issued = << <<"Channel", m.ChannelID>> >>

\* The fallback has run on a message with a user, a role and a channel
\* mention, all three cached: only the user mention is rewritten.
C1_Witness ==
    /\ Done /\ s.StateEnabled /\ s.State = OrphanState /\ basic.ret
    /\ m.Mentions = <<User("1", Str1("a"))>>
    /\ m.MentionRoles = <<Str1("5")>>
    /\ m.Content = Str(NickToken(Str1("1")), ChannelToken(Str1("8")))
    /\ Text(content) = Str(<<"@", "a">>, ChannelToken(Str1("8")))
    /\ err = ErrStateNotFound

\* Some "<#id>" token of the call was resolved to a channel that is not a
\* voice channel.
TextChannelMentioned ==
    \E k \in 2..Len(log) : log[k].op = "Channel" /\ IsTextChannel(log[k].key)

\* C2 as stated: with Mentions and MentionRoles empty, both resolvers
\* return Content unchanged.
C2_NoMentionsUnchanged ==
    (m.Mentions = <<>> /\ m.MentionRoles = <<>>)
        => /\ basic.ret => Text(basic.out) = m.Content
           /\ Done => Text(content) = m.Content

\* C2 amended: with Mentions and MentionRoles empty,
\* ContentWithMentionsReplaced returns Content unchanged, and so does
\* ContentWithMoreMentionsReplaced unless it resolved a "<#id>" token of
\* Content to a cached channel that is not a voice channel.
C2_NoMentionsUnchangedButChannels ==
    (m.Mentions = <<>> /\ m.MentionRoles = <<>>)
        => /\ basic.ret => Text(basic.out) = m.Content
           /\ (Done /\ ~TextChannelMentioned) => Text(content) = m.Content

\* Both resolvers have returned on a message without Mentions or
\* MentionRoles whose Content holds a user token and a voice channel's
\* token, the cache enabled and the message's channel found.
C2_Witness ==
    /\ Done /\ basic.ret /\ Enhancing
    /\ m.Mentions = <<>> /\ m.MentionRoles = <<>>
    /\ m.Content = Str(UserToken(Str1("1")), ChannelToken(Str1("7")))
    /\ ~IsTextChannel(Str1("7")) /\ Str1("7") \in DOMAIN s.State.channels
    /\ Len(log) = 2
    /\ Text(content) = m.Content

\* C3: with the cache disabled, ContentWithMoreMentionsReplaced returns what
\* ContentWithMentionsReplaced returns and a nil error, and issues no
\* Channel, Member or Role lookup.
C3_DisabledIsBasic ==
    (Done /\ ~s.StateEnabled)
        => /\ basic.ret => Text(content) = Text(basic.out)
           /\ err = NoError
           /\ log = <<>>

\* The disabled call has returned although the cache holds every entity:
\* the user mention is rewritten, the role mention is not.
C3_Witness ==
    /\ Done /\ ~s.StateEnabled /\ s.State = FullState /\ basic.ret
    /\ m.Mentions = <<User("1", Str1("a"))>>
    /\ m.MentionRoles = <<Str1("5")>>
    /\ m.Content = Str(UserToken(Str1("1")), RoleToken(Str1("5")))
    /\ Text(content) = Str(<<"@", "a">>, RoleToken(Str1("5")))
    /\ log = <<>>

\* C4 as stated: ContentWithMentionsReplaced applied to its own result, with
\* the same Mentions, returns that result again.
C4_BasicIdempotent ==
    again.ret => Text(again.out) = Text(basic.out)

\* C4 amended: ContentWithMentionsReplaced applied to its own result, with
\* the same Mentions, returns that result again, provided every Username of
\* Mentions is non-empty, holds no "<" and begins with neither a decimal
\* digit nor "!" (the IDs being non-empty decimal strings).
C4_BasicIdempotentPlainNames ==
    (PlainNames /\ again.ret) => Text(again.out) = Text(basic.out)

\* Both calls have returned for two users with plain names and a Content
\* that nests a token of the first in brackets: "<<@1>>" became "<@a>".
C4_Witness ==
    /\ again.ret /\ PlainNames
    /\ m.Mentions = <<User("1", Str1("a")), User("2", Str1("b"))>>
    /\ m.Content = Str(Str1("<"), Str(UserToken(Str1("1")), Str1(">")))
    /\ Text(basic.out) = <<"<", "@", "a", ">">>
    /\ Text(again.out) = Text(basic.out)

\* C10 as stated: within one call of ContentWithMentionsReplaced no
\* substitution matches text that an earlier substitution of the call wrote.
C10_NoRescan ==
    basic.ret => ~basic.rescanned

\* C10 amended: within one call of ContentWithMentionsReplaced no
\* substitution matches text that an earlier substitution of the call
\* wrote, provided every Username of Mentions is non-empty, holds no "<" and
\* begins with neither a decimal digit nor "!"; otherwise the text written
\* for one user is scanned for the tokens of the users after it.
C10_NoRescanPlainNames ==
    (PlainNames /\ basic.ret) => ~basic.rescanned

\* The call has returned for the same user listed twice, with a plain name,
\* and a Content in which the first substitution leaves "<@a>" behind.
C10_Witness ==
    /\ basic.ret /\ PlainNames /\ ~basic.rescanned
    /\ m.Mentions = <<User("1", Str1("a")), User("1", Str1("a"))>>
    /\ m.Content = Str(Str1("<"), Str(UserToken(Str1("1")), Str1(">")))
    /\ Text(basic.out) = <<"<", "@", "a", ">">>

\* C5: in the user pass, a user whose Member lookup succeeds with a
\* non-empty Nick has every "<@ID>" replaced by "@Username" and every
\* "<@!ID>" by "@Nick"; when the lookup fails or Nick is empty both forms
\* become "@Username", as ContentWithMentionsReplaced does for that user.
C5_UserPass ==
    [][LookupStep("users") =>
        LET user == m.Mentions[idx]
            key == <<guild, user.ID>>
            nicked == key \in DOMAIN s.State.members
                        /\ s.State.members[key].Nick # <<>>
        IN  Text(content') =
                IF nicked
                THEN ReplaceAll(ReplaceAll(Text(content),
                                           UserToken(user.ID), <<"@">> \o user.Username),
                                NickToken(user.ID), <<"@">> \o s.State.members[key].Nick)
                ELSE Text(ContentWithMentionsReplaced(
                            [Content |-> Text(content), Mentions |-> <<user>>]).out)
    ]_vars

\* The user pass has rewritten "<@1><@!1>" for user 1, Username a, whose
\* member has Nick n: the result is "@a@n".
C5_Witness ==
    /\ Enhancing
    /\ m.Mentions = <<User("1", Str1("a"))>>
    /\ m.Content = Str(UserToken(Str1("1")), NickToken(Str1("1")))
    /\ Len(log) = 2 /\ log[2] = Lookup("Member", Str1("1"), NoError)
    /\ s.State.members[<<GuildG, Str1("1")>>].Nick = Str1("n")
    /\ Text(content) = <<"@", "a", "@", "n">>

\* C6: in the role pass, a role whose lookup fails or that is not
\* Mentionable keeps every "<@&ID>" token, also in the string returned;
\* any other role has every "<@&ID>" replaced by "@Name".
C6_RolePass ==
    /\ [][LookupStep("roles") =>
            LET roleID == m.MentionRoles[idx]
                key == <<guild, roleID>>
                usable == key \in DOMAIN s.State.roles
                            /\ s.State.roles[key].Mentionable
            IN  Text(content') =
                    IF usable
                    THEN ReplaceAll(Text(content), RoleToken(roleID),
                                    <<"@">> \o s.State.roles[key].Name)
                    ELSE Text(content)
       ]_vars
    /\ [](Done /\ Enhancing =>
            \A k \in 1..Len(m.MentionRoles) :
                LET roleID == m.MentionRoles[k]
                    key == <<guild, roleID>>
                IN  (key \notin DOMAIN s.State.roles
                        \/ ~s.State.roles[key].Mentionable)
                    => Count(Text(content), RoleToken(roleID))
                           = Count(m.Content, RoleToken(roleID)))

\* The call has returned "<@&5>@s" for "<@&5><@&6>": role 5 is cached but
\* not Mentionable, role 6 is.
C6_Witness ==
    /\ Done /\ Enhancing
    /\ m.MentionRoles = <<Str1("5"), Str1("6")>>
    /\ m.Content = Str(RoleToken(Str1("5")), RoleToken(Str1("6")))
    /\ <<GuildG, Str1("5")>> \in DOMAIN s.State.roles
    /\ ~s.State.roles[<<GuildG, Str1("5")>>].Mentionable
    /\ Text(content) = Str(RoleToken(Str1("5")), <<"@", "s">>)

\* C7: the channel pass handles each "<#id>" token of the text it is given
\* on its own: a token whose Channel lookup fails or finds a voice channel
\* is returned as it is, any other becomes "#" and the channel's Name.
C7_ChannelPass ==
    [][(pc = "channels" /\ pc' = "done")
        => Text(content') = SubstituteChannels(Text(content))]_vars

\* The call has returned "<#7>#d" for "<#7><#8>": channel 7 is a cached
\* voice channel, channel 8 the text channel d.
C7_Witness ==
    /\ Done /\ Enhancing
    /\ m.Content = Str(ChannelToken(Str1("7")), ChannelToken(Str1("8")))
    /\ Str1("7") \in DOMAIN s.State.channels
    /\ s.State.channels[Str1("7")].Type = ChannelTypeGuildVoice
    /\ Text(content) = Str(ChannelToken(Str1("7")), <<"#", "d">>)

\* Lookup k of the call failed.
Missed(k) == k \in 1..Len(log) /\ log[k].err # NoError

\* C8: once the message's channel is resolved the call returns a nil error
\* whatever lookups miss, and no miss stops the passes: every user of
\* Mentions and every role of MentionRoles is looked up, the string
\* returned holds no token of a mentioned user or of a mentioned role that
\* is cached and Mentionable, and it holds "#Name" for every "<#id>" token
\* looked up and found to be a channel that is not a voice channel.
C8_MissesAreSkipped ==
    (Done /\ Enhancing) =>
        /\ err = NoError
        /\ Len(log) >= 1 + Len(m.Mentions) + Len(m.MentionRoles)
        /\ \A k \in 1..Len(m.Mentions) :
              /\ Issued[1 + k] = <<"Member", m.Mentions[k].ID>>
              /\ ~Contains(Text(content), UserToken(m.Mentions[k].ID))
              /\ ~Contains(Text(content), NickToken(m.Mentions[k].ID))
        /\ \A k \in 1..Len(m.MentionRoles) :
              /\ Issued[1 + Len(m.Mentions) + k] = <<"Role", m.MentionRoles[k]>>
              /\ (<<guild, m.MentionRoles[k]>> \in DOMAIN s.State.roles
                    /\ s.State.roles[<<guild, m.MentionRoles[k]>>].Mentionable)
                 => ~Contains(Text(content), RoleToken(m.MentionRoles[k]))
        /\ \A k \in (2 + Len(m.Mentions) + Len(m.MentionRoles))..Len(log) :
              IsTextChannel(log[k].key)
                 => Contains(Text(content), <<"#">> \o s.State.channels[log[k].key].Name)

\* The call has returned "@m@s" for "<@!2><@&6>" although the Member lookup
\* of user 1 and the Role lookup of role 5 failed before those of user 2
\* and role 6.
C8_Witness ==
    /\ Done /\ Enhancing /\ err = NoError
    /\ m.Mentions = <<User("1", Str1("a")), User("2", Str1("b"))>>
    /\ m.MentionRoles = <<Str1("5"), Str1("6")>>
    /\ m.Content = Str(NickToken(Str1("2")), RoleToken(Str1("6")))
    /\ Missed(2) /\ ~Missed(3) /\ Missed(4) /\ ~Missed(5)
    /\ Text(content) = <<"@", "m", "@", "s">>

\* The lookups of a call that resolves the message's channel, for the text
\* str handed to the channel pass.
ExpectedLookups(str) ==
    << <<"Channel", m.ChannelID>> >>
        \o [k \in 1..Len(m.Mentions) |-> <<"Member", m.Mentions[k].ID>>]
        \o [k \in 1..Len(m.MentionRoles) |-> <<"Role", m.MentionRoles[k]>>]
        \o [k \in 1..Len(ChannelMentions(str)) |-> <<"Channel", ChannelMentions(str)[k]>>]

\* The channel pass has scanned the whole text.
ScanComplete == pc = "channels" /\ NextMatch(Text(content), pos) = 0

\* C9: a call that resolves the message's channel issues one Channel lookup
\* for it, then one Member lookup per user of Mentions in order, then one
\* Role lookup per ID of MentionRoles in order, then one Channel lookup per
\* "<#...>" token of the text left to right, and no other lookup.
C9_LookupOrder ==
    /\ ScanComplete => Issued = ExpectedLookups(Text(content))
    /\ (Done /\ Enhancing) =>
            /\ Len(log) >= 1 + Len(m.Mentions) + Len(m.MentionRoles)
            /\ \A k \in 1..Len(log) :
                    log[k].op = IF k = 1 THEN "Channel"
                                ELSE IF k <= 1 + Len(m.Mentions) THEN "Member"
                                ELSE IF k <= 1 + Len(m.Mentions) + Len(m.MentionRoles)
                                     THEN "Role"
                                ELSE "Channel"

\* The channel pass has scanned "<#7><#8>" of a message with two Mentions
\* and two MentionRoles: seven lookups were issued.
C9_Witness ==
    /\ ScanComplete
    /\ m.Mentions = <<User("1", Str1("a")), User("2", Str1("b"))>>
    /\ m.MentionRoles = <<Str1("5"), Str1("6")>>
    /\ m.Content = Str(ChannelToken(Str1("7")), ChannelToken(Str1("8")))
    /\ Issued = << <<"Channel", Str1("9")>>, <<"Member", Str1("1")>>,
                   <<"Member", Str1("2")>>, <<"Role", Str1("5")>>,
                   <<"Role", Str1("6")>>, <<"Channel", Str1("7")>>,
                   <<"Channel", Str1("8")>> >>

====
